---- MODULE Spec2Model ----
(***************************************************************************)
(* Model of the analytics engine MFAnalytics of india-mf-analysis          *)
(* (src/mf_reflex/src/analytics.py).                                       *)
(*                                                                         *)
(* Numbers.  The engine computes on IEEE doubles.  The model computes on   *)
(* exact values: a rational is a pair <<n, d>> in lowest terms with d > 0, *)
(* and a value ("float") is a record                                       *)
(*   [k |-> "rat", q |-> r]          the rational r                        *)
(*   [k |-> "nan"]                   NaN                                   *)
(*   [k |-> "inf", s |-> 1 or -1]    +Infinity / -Infinity                 *)
(*   [k |-> "sqrt", c |-> r, r |-> x]   c * sqrt(x),  c # 0, x > 0         *)
(*   [k |-> "pow", c |-> r, b |-> x, e |-> y]  c * (x^y - 1), x # 1, y > 0 *)
(*   [k |-> "fit", c |-> r, tau4 |-> f]                                    *)
(*                  r times the slope of the Hurst fit over lag variances f *)
(*   [k |-> "mean", a |-> v, b |-> w]   (v + w) / 2                        *)
(* Rounding of doubles is not modelled.                                    *)
(*                                                                         *)
(* Time.  A timestamp is a number of ticks since Day0 00:00, TicksPerDay   *)
(* ticks to the day, so that two strictly increasing timestamps may fall   *)
(* on one calendar day.                                                    *)
(***************************************************************************)
EXTENDS Integers, Sequences, FiniteSets, TLC

\* ---------------------------------------------------------------- bounds
MaxLen == 3          \* longest enumerated price series
MaxT == 3            \* last timestamp (in ticks) of the enumerated series
TicksPerDay == 2     \* resolution of a timestamp
Prices == {80, 100, 120}
RfChoices == {0, 60}   \* risk-free rate, in 1/1000 (0%, 6%)

\* ------------------------------------------------------ program constants
TradingDays == 252
HurstMinLen == 100
DaysPerYear == <<1461, 4>>     \* 365.25

\* ------------------------------------------------------------- rationals
Abs(x) == IF x < 0 THEN -x ELSE x

RECURSIVE GCD(_, _)
GCD(a, b) == IF b = 0 THEN a ELSE GCD(b, a % b)

Norm(n, d) ==
    LET g == GCD(Abs(n), Abs(d))
        s == IF d < 0 THEN -1 ELSE 1
    IN  <<(s * n) \div g, (s * d) \div g>>

R(n) == <<n, 1>>
\* the sum over the least common denominator
AddOver(x, y) ==
    LET g == GCD(x[2], y[2])
    IN  Norm(x[1] * (y[2] \div g) + y[1] * (x[2] \div g), (x[2] \div g) * y[2])
\* each operand is evaluated once, as a float operand is
RAdd(x, y) == CHOOSE r \in {AddOver(a, b) : a \in {x}, b \in {y}} : TRUE
RNeg(x) == <<-x[1], x[2]>>
RSub(x, y) == RAdd(x, RNeg(y))
\* the product of two fractions in lowest terms
MulOver(a, b) == Norm(a[1] * b[1], a[2] * b[2])
RMul(x, y) ==
    CHOOSE r \in {MulOver(Norm(a[1], b[2]), Norm(b[1], a[2])) :
                    a \in {x}, b \in {y}} : TRUE
RInv(x) == Norm(x[2], x[1])
RDiv(x, y) == RMul(x, RInv(y))
RAbs(x) == <<Abs(x[1]), x[2]>>
RLt(x, y) == x[1] * y[2] < y[1] * x[2]
RLe(x, y) == x[1] * y[2] <= y[1] * x[2]
RSign(x) == IF x[1] > 0 THEN 1 ELSE IF x[1] < 0 THEN -1 ELSE 0

\* the sum of xs[lo..hi], by halves
RECURSIVE RSumRange(_, _, _)
RSumRange(xs, lo, hi) ==
    IF lo > hi THEN R(0)
    ELSE IF lo = hi THEN xs[lo]
    ELSE LET mid == (lo + hi) \div 2
         IN  RAdd(RSumRange(xs, lo, mid), RSumRange(xs, mid + 1, hi))

RSum(xs) == RSumRange(xs, 1, Len(xs))

\* the minimum of xs[lo..hi], by halves
RECURSIVE RMinRange(_, _, _)
RMinRange(xs, lo, hi) ==
    IF lo = hi THEN xs[lo]
    ELSE LET mid == (lo + hi) \div 2
             a == RMinRange(xs, lo, mid)
             b == RMinRange(xs, mid + 1, hi)
         IN  IF RLe(a, b) THEN a ELSE b

RMin(xs) == RMinRange(xs, 1, Len(xs))

\* the maximum of xs[lo..hi], by halves
RECURSIVE RMaxRange(_, _, _)
RMaxRange(xs, lo, hi) ==
    IF lo = hi THEN xs[lo]
    ELSE LET mid == (lo + hi) \div 2
             a == RMaxRange(xs, lo, mid)
             b == RMaxRange(xs, mid + 1, hi)
         IN  IF RLe(a, b) THEN b ELSE a

RMax(xs) == RMaxRange(xs, 1, Len(xs))

\* ---------------------------------------------------------------- values
NaN == [k |-> "nan"]
Inf(s) == [k |-> "inf", s |-> s]
Rat(q) == [k |-> "rat", q |-> q]
Zero == Rat(R(0))

IsFinite(v) == v.k \notin {"nan", "inf"}

\* v != 0 as Python evaluates it (NaN != 0 is True)
NonZero(v) == v # Zero

\* -1, 0, 1 for a finite or infinite value; NaN has no sign
VSign(v) ==
    CASE v.k = "rat" -> RSign(v.q)
      [] v.k = "inf" -> v.s
      [] v.k = "sqrt" -> RSign(v.c)
      [] v.k = "pow" -> RSign(v.c) * RSign(RSub(v.b, R(1)))

\* np.sqrt of a non-negative rational
VSqrt(x) == IF x[1] = 0 THEN Zero ELSE [k |-> "sqrt", c |-> R(1), r |-> x]

\* x ** e - 1 for a positive rational base and a positive rational exponent
PowM1(x, e) ==
    IF x = R(1) THEN Zero
    ELSE IF e = R(1) THEN Rat(RSub(x, R(1)))
    ELSE [k |-> "pow", c |-> R(1), b |-> x, e |-> e]

\* rational times value
VScale(x, v) ==
    CASE v.k = "nan" -> NaN
      [] v.k = "inf" -> IF x[1] = 0 THEN NaN ELSE Inf(RSign(x) * v.s)
      [] v.k = "rat" -> Rat(RMul(x, v.q))
      [] v.k = "sqrt" -> IF x[1] = 0 THEN Zero ELSE [v EXCEPT !.c = RMul(x, v.c)]
      [] v.k = "pow" -> IF x[1] = 0 THEN Zero ELSE [v EXCEPT !.c = RMul(x, v.c)]

\* product of two values, each a rational, a square root or NaN
VMul(a, b) ==
    CASE a.k = "nan" \/ b.k = "nan" -> NaN
      [] a.k = "rat" -> VScale(a.q, b)
      [] b.k = "rat" -> VScale(b.q, a)
      [] a.k = "sqrt" /\ b.k = "sqrt" ->
            [k |-> "sqrt", c |-> RMul(a.c, b.c), r |-> RMul(a.r, b.r)]

\* a / b in double arithmetic: x/0 is +-Infinity, 0/0 is NaN
VDiv(a, b) ==
    CASE a.k = "nan" \/ b.k = "nan" -> NaN
      [] b = Zero -> IF a = Zero THEN NaN ELSE Inf(VSign(a))
      [] b.k = "rat" -> VScale(RInv(b.q), a)
      [] b.k = "sqrt" /\ a.k = "rat" ->
            \* x / (c sqrt r) = x / c * sqrt (1 / r)
            VScale(RDiv(a.q, b.c), VSqrt(RInv(b.r)))

VAbs(v) ==
    CASE v.k = "rat" -> Rat(RAbs(v.q))
      [] v.k = "nan" -> NaN
      [] v.k = "inf" -> Inf(1)
      [] OTHER -> [v EXCEPT !.c = RAbs(v.c)]

\* ---------------------------------------------------------- price series
\* a pandas Series indexed by timestamp: a sequence of [t |-> tick, p |-> price]
Strict(s) == \A i \in 1..(Len(s) - 1) : s[i].t < s[i + 1].t

SeriesOfLen(n) ==
    {s \in [1..n -> [t : 0..MaxT, p : Prices]] : Strict(s)}

AllSeries == UNION {SeriesOfLen(n) : n \in 0..MaxLen}

\* Timedelta.days of index[-1] - index[0]
SpanDays(s) == (s[Len(s)].t - s[1].t) \div TicksPerDay

\* nav_series.pct_change().dropna()
pct_change(s) ==
    [i \in 1..(Len(s) - 1) |-> RSub(RDiv(R(s[i + 1].p), R(s[i].p)), R(1))]

\* a sequence given by a rule, computed once
Explicit(f) == SubSeq(f, 1, Len(f))

\* nav_series.values
Values(s) == Explicit([i \in 1..Len(s) |-> s[i].p])

Mean(xs) == RDiv(RSum(xs), R(Len(xs)))

\* sum of squared deviations from the mean
SqDev(xs) ==
    LET m == Mean(xs)
    IN  RSum([i \in 1..Len(xs) |-> RMul(RSub(xs[i], m), RSub(xs[i], m))])

\* pandas Series.std(): sample standard deviation (ddof = 1), NaN for one value
Std(xs) ==
    IF Len(xs) < 2 THEN NaN ELSE VSqrt(RDiv(SqDev(xs), R(Len(xs) - 1)))

\* the sum of the integers xs[lo..hi], by halves
RECURSIVE ISumRange(_, _, _)
ISumRange(xs, lo, hi) ==
    IF lo > hi THEN 0
    ELSE IF lo = hi THEN xs[lo]
    ELSE LET mid == (lo + hi) \div 2
         IN  ISumRange(xs, lo, mid) + ISumRange(xs, mid + 1, hi)

\* np.std(): population variance (ddof = 0) under the root, of integers:
\* mean((x - mean(x))^2) = (n * sum(x^2) - sum(x)^2) / n^2
PopVar(xs) ==
    LET n == Len(xs)
        sum == ISumRange(xs, 1, n)
        squares == ISumRange(Explicit([i \in 1..n |-> xs[i] * xs[i]]), 1, n)
    IN  Norm(n * squares - sum * sum, n * n)

Sqrt252 == VSqrt(R(TradingDays))

\* xs[mask]
Filter(xs, keep(_)) == SelectSeq(xs, keep)

\* ------------------------------------------------------------ transforms
\* nav_series.empty or len(nav_series) < 2, with an off-by-one bound
TooShortForStd(nav_series) == Len(nav_series) < 3

\* nav_series.empty or len(nav_series) < 2
TooShort(nav_series) == Len(nav_series) < 2

\* calculate_cagr with the two end values exchanged
calculate_cagr_swapped(nav_series) ==
    IF TooShort(nav_series) THEN Zero
    ELSE LET start_val == R(nav_series[Len(nav_series)].p)
             end_val == R(nav_series[1].p)
             days == SpanDays(nav_series)
         IN  IF days <= 0 THEN Zero
             ELSE PowM1(RDiv(end_val, start_val), RDiv(DaysPerYear, R(days)))

calculate_cagr(nav_series) ==
    IF TooShort(nav_series) THEN Zero
    ELSE LET start_val == R(nav_series[1].p)
             end_val == R(nav_series[Len(nav_series)].p)
             days == SpanDays(nav_series)
         IN  IF days <= 0 THEN Zero
             ELSE PowM1(RDiv(end_val, start_val), RDiv(DaysPerYear, R(days)))

\* calculate_fund_multiplier with 0.0 as the default of the empty series
calculate_fund_multiplier_zero(nav_series) ==
    IF nav_series = <<>> THEN Zero
    ELSE Rat(RDiv(R(nav_series[Len(nav_series)].p), R(nav_series[1].p)))

calculate_fund_multiplier(nav_series) ==
    IF nav_series = <<>> THEN Rat(R(1))
    ELSE Rat(RDiv(R(nav_series[Len(nav_series)].p), R(nav_series[1].p)))

\* the squares averaged over the negative returns only
calculate_downside_deviation_over_negatives(nav_series) ==
    IF TooShort(nav_series) THEN Zero
    ELSE LET returns == pct_change(nav_series)
             neg(r) == RLt(r, R(0))
             x == Filter(returns, neg)
             y == RSum([i \in 1..Len(x) |-> RMul(x[i], x[i])])
             z == IF x = <<>> THEN R(0) ELSE RDiv(y, R(Len(x)))
         IN  IF returns = <<>> THEN Zero ELSE VMul(VSqrt(z), Sqrt252)

calculate_downside_deviation(nav_series) ==
    IF TooShort(nav_series) THEN Zero
    ELSE LET returns == pct_change(nav_series)
             neg(r) == RLt(r, R(0))
             x == Filter(returns, neg)
             y == RSum([i \in 1..Len(x) |-> RMul(x[i], x[i])])
             z == RDiv(y, R(Len(returns)))
         IN  IF returns = <<>> THEN Zero ELSE VMul(VSqrt(z), Sqrt252)

\* nav_series.max() at every point, in place of the running maximum
cummax_overall(s) ==
    [i \in 1..Len(s) |->
        CHOOSE m \in {s[j].p : j \in 1..Len(s)} : \A j \in 1..Len(s) : s[j].p <= m]

\* nav_series.cummax()
cummax(s) ==
    [i \in 1..Len(s) |->
        CHOOSE m \in {s[j].p : j \in 1..i} : \A j \in 1..i : s[j].p <= m]

\* (nav_series - rolling_max) / nav_series at one point
DrawdownOverPrice(price, rolling_max) == RDiv(R(price - rolling_max), R(price))

\* (nav_series - rolling_max) / rolling_max at one point
Drawdown(price, rolling_max) == RDiv(R(price - rolling_max), R(rolling_max))

\* drawdown.max()
MaxDrawdownAsMax(drawdown) ==
    RNeg(RMin([i \in 1..Len(drawdown) |-> RNeg(drawdown[i].v)]))

\* drawdown.min()
MaxDrawdown(drawdown) == RMin([i \in 1..Len(drawdown) |-> drawdown[i].v])

calculate_drawdowns(nav_series) ==
    IF nav_series = <<>> THEN [drawdown |-> <<>>, max_drawdown |-> Zero]
    ELSE LET rolling_max == cummax(nav_series)
             drawdown ==
                [i \in 1..Len(nav_series) |->
                    [t |-> nav_series[i].t,
                     v |-> Drawdown(nav_series[i].p, rolling_max[i])]]
         IN  [drawdown |-> drawdown, max_drawdown |-> Rat(MaxDrawdown(drawdown))]

\* range(2, 20) read with its end included
HurstLagsInclusive == 2..20

\* lags = range(2, 20)
HurstLags == 2..19

\* tau to the fourth power for one lag: the variance of vals[lag:] - vals[:-lag]
LagVar(vals, lag) ==
    PopVar(Explicit([i \in 1..(Len(vals) - lag) |-> vals[i + lag] - vals[i]]))

calculate_hurst(nav_series) ==
    IF Len(nav_series) < HurstMinLen THEN Rat(<<1, 2>>)
    ELSE LET vals == Values(nav_series)
             tau4 == [lag \in HurstLags |-> LagVar(vals, lag)]
         IN  \* log(0) = -inf for a lag without dispersion: the fit is NaN
             IF \E lag \in HurstLags : tau4[lag] = R(0) THEN NaN
             ELSE \* 2.0 times the slope of log(tau) over log(lag), kept symbolic
                  [k |-> "fit", c |-> R(2), tau4 |-> tau4]

\* returns.std() * np.sqrt(252)
Volatility(returns) == VMul(Std(returns), Sqrt252)

\* returns.mean() * 252 - self.rf
ExcessReturn(returns, self_rf) ==
    Rat(RSub(RMul(Mean(returns), R(TradingDays)), self_rf))

\* self.rf / 252
Threshold(self_rf) == RDiv(self_rf, R(TradingDays))

\* returns[returns > threshold].sum()
Gains(returns, threshold) ==
    LET above(r) == RLt(threshold, r) IN Rat(RSum(Filter(returns, above)))

\* abs(returns[returns <= threshold].sum())
Losses(returns, threshold) ==
    LET below(r) == RLe(r, threshold) IN Rat(RAbs(RSum(Filter(returns, below))))

\* num / den without the fallback
RatioUnguarded(num, den) == VDiv(num, den)

\* num / den if den != 0 else 0
Ratio(num, den) == IF NonZero(den) THEN VDiv(num, den) ELSE Zero

RiskFields ==
    {"volatility", "sharpe_ratio", "sortino_ratio", "downside_deviation",
     "calmar_ratio", "omega_ratio", "hurst_exponent", "cagr"}

calculate_risk_metrics(nav_series, self_rf) ==
    IF TooShort(nav_series) THEN <<>>
    ELSE LET returns == pct_change(nav_series)
             volatility == Volatility(returns)
             cagr == calculate_cagr(nav_series)
             excess_return == ExcessReturn(returns, self_rf)
             sharpe == Ratio(excess_return, volatility)
             downside_dev == calculate_downside_deviation(nav_series)
             sortino == Ratio(excess_return, downside_dev)
             max_dd == calculate_drawdowns(nav_series).max_drawdown
             calmar == IF NonZero(max_dd) THEN VDiv(cagr, VAbs(max_dd)) ELSE Zero
             threshold == Threshold(self_rf)
             gains == Gains(returns, threshold)
             losses == Losses(returns, threshold)
             omega == Ratio(gains, losses)
             hurst == calculate_hurst(nav_series)
         IN  IF returns = <<>> THEN <<>>
             ELSE [volatility |-> volatility,
                   sharpe_ratio |-> sharpe,
                   sortino_ratio |-> sortino,
                   downside_deviation |-> downside_dev,
                   calmar_ratio |-> calmar,
                   omega_ratio |-> omega,
                   hurst_exponent |-> hurst,
                   cagr |-> cagr]

\* -------------------------------------------------------------- calendar
\* A day is a number of days since 1970-01-01; pandas reads a Timestamp's
\* year, month and weekday off the proleptic Gregorian calendar.
DaysFromCivil(y, m, d) ==
    LET yy == IF m <= 2 THEN y - 1 ELSE y
        era == yy \div 400
        yoe == yy - era * 400
        mp == IF m > 2 THEN m - 3 ELSE m + 9
        doy == (153 * mp + 2) \div 5 + d - 1
        doe == yoe * 365 + yoe \div 4 - yoe \div 100 + doy
    IN  era * 146097 + doe - 719468

CivilFromDays(n) ==
    LET z == n + 719468
        era == z \div 146097
        doe == z - era * 146097
        yoe == (doe - doe \div 1460 + doe \div 36524 - doe \div 146096) \div 365
        doy == doe - (365 * yoe + yoe \div 4 - yoe \div 100)
        mp == (5 * doy + 2) \div 153
        d == doy - (153 * mp + 2) \div 5 + 1
        m == IF mp < 10 THEN mp + 3 ELSE mp - 9
    IN  [y |-> IF m <= 2 THEN yoe + era * 400 + 1 ELSE yoe + era * 400,
         m |-> m, d |-> d]

\* Monday is 0; 1970-01-01 was a Thursday
Weekday(n) == (n + 3) % 7

\* the day of tick 0: Thursday 2020-12-31
Day0 == DaysFromCivil(2020, 12, 31)

\* the calendar day of a timestamp (Timestamp.normalize())
DayOf(t) == Day0 + t \div TicksPerDay

YearOf(t) == CivilFromDays(DayOf(t)).y

\* months are numbered 12 * year + (month - 1)
MonthOf(t) == LET c == CivilFromDays(DayOf(t)) IN 12 * c.y + (c.m - 1)

\* the first business day of a month (offset 'BMS')
BusinessMonthStart(mi) ==
    LET first == DaysFromCivil(mi \div 12, (mi % 12) + 1, 1)
        wd == Weekday(first)
    IN  IF wd = 5 THEN first + 2 ELSE IF wd = 6 THEN first + 1 ELSE first

\* the 'BMS' bin of a timestamp: the month whose first business day is the
\* latest one on or before the timestamp's day
BmsBin(t) ==
    IF BusinessMonthStart(MonthOf(t)) <= DayOf(t) THEN MonthOf(t)
    ELSE MonthOf(t) - 1

\* series.resample(rule): the bins from the first point's to the last
\* point's, each with the indices of its points (none for an empty bin)
Resample(s, bin(_)) ==
    LET Group(bins) ==
            [b \in 1..(bins[Len(bins)] - bins[1] + 1) |->
                {i \in 1..Len(bins) : bins[i] = bins[1] + b - 1}]
    IN  CHOOSE r \in {Explicit(Group(bins)) :
                        bins \in {Explicit([i \in 1..Len(s) |-> bin(s[i].t)])}} :
            TRUE

SetMin(S) == CHOOSE m \in S : \A x \in S : m <= x
SetMax(S) == CHOOSE m \in S : \A x \in S : x <= m

\* -------------------------------------------------------- more transforms
\* round(window_years * 252) in place of int()
WindowRounded(window_years) ==
    (2 * window_years[1] * TradingDays + window_years[2])
        \div (2 * window_years[2])

\* int(window_years * 252) for a rational number of years: int() truncates
Window(window_years) == (window_years[1] * TradingDays) \div window_years[2]

\* price[i] / price[i - window] for every i with both points
Growth(nav_series, window) ==
    [i \in 1..(Len(nav_series) - window) |->
        [t |-> nav_series[i + window].t,
         g |-> RDiv(R(nav_series[i + window].p), R(nav_series[i].p))]]

calculate_rolling_returns(nav_series, window_years) ==
    IF nav_series = <<>> THEN <<>>
    ELSE IF Len(nav_series) < Window(window_years) THEN <<>>
    ELSE LET growth == Growth(nav_series, Window(window_years))
         IN  [i \in 1..Len(growth) |->
                [t |-> growth[i].t,
                 v |-> PowM1(growth[i].g, RInv(window_years))]]

DefaultSip == 10000

calculate_sip_returns(nav_series, monthly_sip) ==
    IF nav_series = <<>> THEN <<>>
    ELSE LET bins == Resample(nav_series, BmsBin)
             \* .first() of a bin: NaN for a bin without a point
             monthly_nav ==
                [b \in 1..Len(bins) |->
                    IF bins[b] = {} THEN NaN
                    ELSE Rat(R(nav_series[SetMin(bins[b])].p))]
             units == [b \in 1..Len(bins) |-> VDiv(Rat(R(monthly_sip)), monthly_nav[b])]
             total_units ==
                IF \E b \in 1..Len(bins) : units[b] = NaN THEN NaN
                ELSE Rat(RSum([b \in 1..Len(bins) |-> units[b].q]))
             total_invested == monthly_sip * Len(bins)
             current_value == VScale(R(nav_series[Len(nav_series)].p), total_units)
             total_gain ==
                IF current_value = NaN THEN NaN
                ELSE Rat(RSub(current_value.q, R(total_invested)))
             absolute_return ==
                IF total_invested > 0
                THEN VDiv(total_gain, Rat(R(total_invested))) ELSE Zero
         IN  [current_value |-> current_value,
              total_invested |-> total_invested,
              absolute_return |-> absolute_return,
              total_units |-> total_units]

\* the two series paired by position, whatever their timestamps
JoinByPosition(fund_nav, benchmark_nav) ==
    LET n == IF Len(fund_nav) < Len(benchmark_nav) THEN Len(fund_nav)
             ELSE Len(benchmark_nav)
    IN  [i \in 1..n |->
            [t |-> fund_nav[i].t, fund |-> fund_nav[i].p,
             bench |-> benchmark_nav[i].p]]

\* pd.DataFrame({'fund': fund_nav, 'bench': benchmark_nav}).dropna(): the
\* rows of the timestamps both series have, in time order
Join(fund_nav, benchmark_nav) ==
    LET shared(x) == \E j \in 1..Len(benchmark_nav) : benchmark_nav[j].t = x.t
        rows == SelectSeq(fund_nav, shared)
    IN  [i \in 1..Len(rows) |->
            [t |-> rows[i].t,
             fund |-> rows[i].p,
             bench |-> LET j == CHOOSE j \in 1..Len(benchmark_nav) :
                                    benchmark_nav[j].t = rows[i].t
                       IN  benchmark_nav[j].p]]

\* .resample(rule).last() of one column, an empty bin filled from the bin
\* before it as pct_change() of pandas 2 pads it
LastPadded(df, bins, col(_)) ==
    [b \in 1..Len(bins) |->
        LET b0 == SetMax({c \in 1..b : bins[c] # {}})
        IN  col(df[SetMax(bins[b0])])]

\* .pct_change().dropna() of a column without NaN
Changes(xs) ==
    [i \in 1..(Len(xs) - 1) |-> RSub(RDiv(R(xs[i + 1]), R(xs[i])), R(1))]

\* xs[i] for the i of a set, in order
RECURSIVE Pick(_, _)
Pick(xs, I) ==
    IF I = {} THEN <<>>
    ELSE LET i == SetMin(I) IN <<xs[i]>> \o Pick(xs, I \ {i})

\* fund.mean() / bench.mean() of one bucket of months, 0 for no month
CaptureRatio(fund, bench, months) ==
    IF months = {} THEN Zero
    ELSE VDiv(Rat(Mean(Pick(fund, months))), Rat(Mean(Pick(bench, months))))

calculate_capture_ratios(fund_nav, benchmark_nav) ==
    LET df == Join(fund_nav, benchmark_nav)
        FundOf(row) == row.fund
        BenchOf(row) == row.bench
        bins == Resample(df, MonthOf)
        fund == Changes(LastPadded(df, bins, FundOf))
        bench_ret == Changes(LastPadded(df, bins, BenchOf))
        upside_bench == {i \in 1..Len(bench_ret) : RLt(R(0), bench_ret[i])}
        downside_bench == {i \in 1..Len(bench_ret) : RLe(bench_ret[i], R(0))}
        upside_ratio == CaptureRatio(fund, bench_ret, upside_bench)
        downside_ratio == CaptureRatio(fund, bench_ret, downside_bench)
    IN  IF df = <<>> THEN [upside |-> Zero, downside |-> Zero]
        ELSE [upside |-> VScale(R(100), upside_ratio),
              downside |-> VScale(R(100), downside_ratio)]

MinAligned == 20

\* the call ended in an exception
Raised(what) == [raised |-> what]

\* sum of (x - mean x)(y - mean y)
CoDev(xs, ys) ==
    LET mx == Mean(xs)
        my == Mean(ys)
    IN  RSum([i \in 1..Len(xs) |-> RMul(RSub(xs[i], mx), RSub(ys[i], my))])

\* df.empty, the guard of calculate_capture_ratios, in place of len(df) < 20
TooFewAlignedEmptyOnly(df) == df = <<>>

\* len(df) < 20
TooFewAligned(df) == Len(df) < MinAligned

calculate_alpha_beta(fund_nav, benchmark_nav, self_rf) ==
    LET df == Join(fund_nav, benchmark_nav)
        f_ret == Changes([i \in 1..Len(df) |-> df[i].fund])
        b_ret == Changes([i \in 1..Len(df) |-> df[i].bench])
        daily_rf == RDiv(self_rf, R(TradingDays))
        f_excess == [i \in 1..Len(f_ret) |-> RSub(f_ret[i], daily_rf)]
        b_excess == [i \in 1..Len(b_ret) |-> RSub(b_ret[i], daily_rf)]
        sxx == SqDev(b_excess)
        syy == SqDev(f_excess)
        sxy == CoDev(b_excess, f_excess)
        \* np.polyfit(b_excess, f_excess, 1); when b_excess is constant the
        \* system has rank 1 and lstsq gives the minimum-norm solution of
        \* the column-scaled system
        beta == IF sxx # R(0) THEN RDiv(sxy, sxx)
                ELSE RDiv(Mean(f_excess), RMul(R(2), b_excess[1]))
        alpha_daily ==
                IF sxx # R(0) THEN RSub(Mean(f_excess), RMul(beta, Mean(b_excess)))
                ELSE RDiv(Mean(f_excess), R(2))
        \* np.corrcoef: 0/0 is NaN when either series is constant
        r_squared == IF sxx = R(0) \/ syy = R(0) THEN NaN
                     ELSE Rat(RMul(RDiv(sxy, sxx), RDiv(sxy, syy)))
        active_returns == [i \in 1..Len(f_ret) |-> RSub(f_ret[i], b_ret[i])]
        tracking_error == VMul(Std(active_returns), Sqrt252)
        info_ratio ==
            Ratio(Rat(RMul(Mean(active_returns), R(TradingDays))), tracking_error)
        wins == {i \in 1..Len(f_ret) : RLt(b_ret[i], f_ret[i])}
        batting_avg == Rat(RMul(Norm(Cardinality(wins), Len(f_ret)), R(100)))
    IN  IF TooFewAligned(df)
        THEN [alpha |-> Zero, beta |-> Zero, r_squared |-> Zero]
        ELSE IF sxx = R(0) /\ b_excess[1] = R(0)
        THEN \* an all-zero column scales to 0/0: lstsq does not converge
             Raised("LinAlgError")
        ELSE [alpha |-> Rat(RMul(alpha_daily, R(TradingDays))),
              beta |-> Rat(beta),
              r_squared |-> r_squared,
              info_ratio |-> info_ratio,
              batting_average |-> batting_avg]

\* the first year left as pct_change() leaves it
calculate_calendar_returns_unpatched(nav_series) ==
    IF nav_series = <<>> THEN <<>>
    ELSE LET bins == Resample(nav_series, YearOf)
             PriceOf(row) == row.p
             yearly_nav == LastPadded(nav_series, bins, PriceOf)
             returns == Changes(yearly_nav)
         IN  [b \in 1..Len(bins) |->
                [year |-> YearOf(nav_series[1].t) + b - 1,
                 v |-> IF b = 1 THEN NaN ELSE Rat(returns[b - 1])]]

calculate_calendar_returns(nav_series) ==
    IF nav_series = <<>> THEN <<>>
    ELSE LET bins == Resample(nav_series, YearOf)
             PriceOf(row) == row.p
             yearly_nav == LastPadded(nav_series, bins, PriceOf)
             returns == Changes(yearly_nav)
             first_actual_nav == nav_series[1].p
         IN  [b \in 1..Len(bins) |->
                [year |-> YearOf(nav_series[1].t) + b - 1,
                 v |-> IF b = 1
                       THEN Rat(RSub(RDiv(R(yearly_nav[1]), R(first_actual_nav)),
                                     R(1)))
                       ELSE Rat(returns[b - 1])]]

\* horizons = {1: "1 Year", 3: "3 Years", 5: "5 Years"}
\* the horizons without the longest
HorizonsShort == {1, 3}

Horizons == {1, 3, 5}
HorizonLabel(yrs) == IF yrs = 1 THEN "1 Year" ELSE IF yrs = 3 THEN "3 Years" ELSE "5 Years"

\* the last bucket opened at 25% in place of 20%
BucketBoundsWide == <<0, 5, 10, 15, 25>>

\* the lower bounds of the return buckets above the negative one, in percent
BucketBounds == <<0, 5, 10, 15, 20>>

RECURSIVE RPow(_, _)
RPow(x, n) == IF n = 0 THEN R(1) ELSE RMul(x, RPow(x, n - 1))

\* the growth g over yrs years of an annual return of pct percent
GrowthAt(pct, yrs) == RPow(Norm(100 + pct, 100), yrs)

\* the k-th smallest of a non-empty sequence of rationals
Kth(xs, k) ==
    LET i == CHOOSE i \in 1..Len(xs) :
                /\ Cardinality({j \in 1..Len(xs) : RLt(xs[j], xs[i])}) < k
                /\ Cardinality({j \in 1..Len(xs) : RLe(xs[j], xs[i])}) >= k
    IN  xs[i]

\* rolling.median(): the middle value, or the mean of the two middle values
Median(gs, yrs) ==
    LET n == Len(gs)
        lo == PowM1(Kth(gs, (n + 1) \div 2), <<1, yrs>>)
        hi == PowM1(Kth(gs, n \div 2 + 1), <<1, yrs>>)
    IN  IF lo = hi THEN lo
        ELSE IF lo.k = "rat" /\ hi.k = "rat"
        THEN Rat(RDiv(RAdd(lo.q, hi.q), R(2)))
        ELSE [k |-> "mean", a |-> lo, b |-> hi]

\* (mask).mean(): the share of the growths g that satisfy the mask
Share(gs, mask(_)) ==
    Norm(Cardinality({i \in 1..Len(gs) : mask(gs[i])}), Len(gs))

\* the entry of one horizon of calculate_rolling_return_profile
ProfileOf(nav_series, yrs) ==
    LET rolling == calculate_rolling_returns(nav_series, R(yrs))
        \* rolling = g ** (1 / yrs) - 1 rises with g: the statistics and the
        \* comparisons are made on g
        growth == Growth(nav_series, Window(R(yrs)))
        gs == [i \in 1..Len(growth) |-> growth[i].g]
        at(b) == GrowthAt(BucketBounds[b], yrs)
        below0(g) == RLt(g, at(1))
        in0_5(g) == RLe(at(1), g) /\ RLt(g, at(2))
        in5_10(g) == RLe(at(2), g) /\ RLt(g, at(3))
        in10_15(g) == RLe(at(3), g) /\ RLt(g, at(4))
        in15_20(g) == RLe(at(4), g) /\ RLt(g, at(5))
        from20(g) == RLe(at(5), g)
    IN  IF rolling = <<>> THEN "None"
        ELSE ("Minimum" :> PowM1(RMin(gs), <<1, yrs>>))
          @@ ("Median" :> Median(gs, yrs))
          @@ ("Maximum" :> PowM1(RMax(gs), <<1, yrs>>))
          @@ ("% times -ve returns" :> Share(gs, below0))
          @@ ("% times returns 0 - 5%" :> Share(gs, in0_5))
          @@ ("% times returns 5 - 10%" :> Share(gs, in5_10))
          @@ ("% times returns 10 - 15%" :> Share(gs, in10_15))
          @@ ("% times returns 15 - 20%" :> Share(gs, in15_20))
          @@ ("% times returns > 20%" :> Share(gs, from20))

calculate_rolling_return_profile(nav_series) ==
    [label \in {HorizonLabel(yrs) : yrs \in Horizons} |->
        ProfileOf(nav_series, CHOOSE yrs \in Horizons : HorizonLabel(yrs) = label)]

\* ----------------------------------------------------------------- state
VARIABLES
    nav,     \* the fund's price series, held by the caller
    bench,   \* the benchmark's price series, held by the caller
    rf,      \* MFAnalytics.rf, in 1/1000
    last,    \* the latest transform call: its name, rf when called, result
    ref,     \* an earlier call the caller kept, to compare a later one with
    mixed,   \* a different call has been made since ref was kept
    fetcher, \* an MFDataFetcher: its class and its _all_schemes
    state,   \* the fields of the Reflex State
    pc       \* where State.handle_search stands: "idle" or "loading"

vars == <<nav, bench, rf, last, ref, mixed, fetcher, state, pc>>

\* self._all_schemes = None, and a catalog held in it
None == <<>>
Some(catalog) == <<catalog>>

\* MFDataFetcher() of src/mf_reflex/src ("mf_reflex") or of src/src ("src")
MFDataFetcher(cls) == [cls |-> cls, all_schemes |-> None]

\* q rounded to a multiple of 1/unit, ties to the even multiple
RoundTo(q, unit) ==
    LET num == q[1] * unit
        low == num \div q[2]
        twice == 2 * (num - low * q[2])
    IN  Norm(IF twice < q[2] \/ (twice = q[2] /\ (low % 2) = 0) THEN low ELSE low + 1,
             unit)

\* a number as the State shows it: f"{v:.2f}" keeps 1/100, f"{v:.1%}" keeps
\* 1/1000; a root or a power stays as it is
Format(fmt, v) ==
    [fmt |-> fmt,
     shown |-> IF v.k = "rat"
               THEN Rat(RoundTo(v.q, IF fmt = ".2f" THEN 100 ELSE 1000))
               ELSE v]

\* "Search a fund to begin analysis"
SearchPrompt ==
    <<"S", "e", "a", "r", "c", "h", " ", "a", " ", "f", "u", "n", "d",
      " ", "t", "o", " ", "b", "e", "g", "i", "n", " ", "a", "n", "a",
      "l", "y", "s", "i", "s">>

\* "Data unavailable for this fund."
DataUnavailable ==
    <<"D", "a", "t", "a", " ", "u", "n", "a", "v", "a", "i", "l", "a",
      "b", "l", "e", " ", "f", "o", "r", " ", "t", "h", "i", "s", " ",
      "f", "u", "n", "d", ".">>

\* "No funds found matching your search."
NoFundsFound ==
    <<"N", "o", " ", "f", "u", "n", "d", "s", " ", "f", "o", "u", "n",
      "d", " ", "m", "a", "t", "c", "h", "i", "n", "g", " ", "y", "o",
      "u", "r", " ", "s", "e", "a", "r", "c", "h", ".">>

\* the fields of State as the class declares them
State ==
    [search_query |-> <<>>,
     is_loading |-> FALSE,
     fund_name |-> SearchPrompt,
     latest_nav |-> Format(".2f", Zero),
     cagr |-> Format(".1%", Zero),
     volatility |-> Format(".1%", Zero),
     results_found |-> FALSE,
     plot_data |-> <<>>]

\* no search has run and no catalog is cached
AppAtRest ==
    /\ fetcher = MFDataFetcher("mf_reflex")
    /\ state = State
    /\ pc = "idle"

\* MFAnalytics(risk_free_rate=0.06)
DefaultRf == 60

\* self.rf as a rational
Rate(r) == Norm(r, 1000)

NoCall == [op |-> "none"]

\* the benchmark is absent or the fund itself
BenchChoices(s) == {<<>>, s}

Init ==
    /\ nav \in AllSeries
    /\ bench \in BenchChoices(nav)
    /\ rf = DefaultRf
    /\ last = NoCall
    /\ ref = NoCall
    /\ mixed = FALSE
    /\ AppAtRest

\* the caller receives the result of a call
Observe(op, args, out) ==
    /\ last' = [op |-> op, args |-> args, rf |-> rf, out |-> out]
    /\ mixed' = (mixed \/ (ref # NoCall /\ (ref.op # op \/ ref.args # args)))
    /\ UNCHANGED <<fetcher, state, pc>>

\* analytics.rf = risk_free_rate
SetRf ==
    /\ \E r \in RfChoices : r # rf /\ rf' = r
    /\ UNCHANGED <<nav, bench, last, ref, mixed, fetcher, state, pc>>

CallCagr ==
    /\ Observe("calculate_cagr", <<>>, calculate_cagr(nav))
    /\ UNCHANGED <<nav, bench, rf, ref>>

CallFundMultiplier ==
    /\ Observe("calculate_fund_multiplier", <<>>, calculate_fund_multiplier(nav))
    /\ UNCHANGED <<nav, bench, rf, ref>>

CallDownsideDeviation ==
    /\ Observe("calculate_downside_deviation", <<>>, calculate_downside_deviation(nav))
    /\ UNCHANGED <<nav, bench, rf, ref>>

\* calculate_drawdowns writing the running maximum into its argument
CallDrawdownsInPlace ==
    /\ Observe("calculate_drawdowns", <<>>, calculate_drawdowns(nav))
    /\ nav' = [i \in 1..Len(nav) |-> [nav[i] EXCEPT !.p = cummax(nav)[i]]]
    /\ UNCHANGED <<bench, rf, ref>>

CallDrawdowns ==
    /\ Observe("calculate_drawdowns", <<>>, calculate_drawdowns(nav))
    /\ UNCHANGED <<nav, bench, rf, ref>>

CallHurst ==
    /\ Observe("calculate_hurst", <<>>, calculate_hurst(nav))
    /\ UNCHANGED <<nav, bench, rf, ref>>

CallRiskMetrics ==
    /\ Observe("calculate_risk_metrics", <<>>, calculate_risk_metrics(nav, Rate(rf)))
    /\ UNCHANGED <<nav, bench, rf, ref>>

\* window_years as the callers pass it (1, 3, 5) and a fraction of a year
\* of which 252 is no whole multiple
WindowYears == {R(yrs) : yrs \in Horizons} \cup {<<1, 100>>}

CallRollingReturns ==
    /\ \E window_years \in WindowYears :
          Observe("calculate_rolling_returns", <<window_years>>,
                  calculate_rolling_returns(nav, window_years))
    /\ UNCHANGED <<nav, bench, rf, ref>>

CallSipReturns ==
    /\ Observe("calculate_sip_returns", <<DefaultSip>>,
               calculate_sip_returns(nav, DefaultSip))
    /\ UNCHANGED <<nav, bench, rf, ref>>

CallCaptureRatios ==
    /\ Observe("calculate_capture_ratios", <<>>,
               calculate_capture_ratios(nav, bench))
    /\ UNCHANGED <<nav, bench, rf, ref>>

CallAlphaBeta ==
    /\ Observe("calculate_alpha_beta", <<>>,
               calculate_alpha_beta(nav, bench, Rate(rf)))
    /\ UNCHANGED <<nav, bench, rf, ref>>

\* calculate_calendar_returns assigning the first year's value to the first
\* point of its argument
CallCalendarReturnsInPlace ==
    /\ Observe("calculate_calendar_returns", <<>>,
               calculate_calendar_returns(nav))
    /\ nav' = IF nav = <<>> THEN nav
              ELSE [nav EXCEPT ![1].p = nav[Len(nav)].p]
    /\ UNCHANGED <<bench, rf, ref>>

CallCalendarReturns ==
    /\ Observe("calculate_calendar_returns", <<>>,
               calculate_calendar_returns(nav))
    /\ UNCHANGED <<nav, bench, rf, ref>>

CallRollingReturnProfile ==
    /\ Observe("calculate_rolling_return_profile", <<>>,
               calculate_rolling_return_profile(nav))
    /\ UNCHANGED <<nav, bench, rf, ref>>

\* a call of any transform of MFAnalytics
Call ==
    \/ CallCagr
    \/ CallRollingReturns
    \/ CallDownsideDeviation
    \/ CallRiskMetrics
    \/ CallHurst
    \/ CallDrawdowns
    \/ CallSipReturns
    \/ CallCaptureRatios
    \/ CallAlphaBeta
    \/ CallFundMultiplier
    \/ CallCalendarReturns
    \/ CallRollingReturnProfile

Next == SetRf \/ Call

Spec == Init /\ [][Next]_vars

\* Long histories: a point a day from Day0 at a price of 100, the last
\* points at the prices of a tail.
Daily(n, tail) ==
    [i \in 1..n |->
        [t |-> (i - 1) * TicksPerDay,
         p |-> IF i > n - Len(tail) THEN tail[i - (n - Len(tail))] ELSE 100]]

\* the lengths at which calculate_alpha_beta and calculate_hurst change
\* branch
AlignedLens == {MinAligned - 1, MinAligned}
HurstLens == {HurstMinLen - 1, HurstMinLen}

LongSeries ==
    {Daily(n, <<p>>) : n \in AlignedLens \cup HurstLens, p \in {100, 120}}

\* histories without an observation in January 2021: 2020-12-31,
\* 2021-02-09 and 2021-03-21
GapSeries ==
    {<<[t |-> 0, p |-> p1],
       [t |-> 40 * TicksPerDay, p |-> p2],
       [t |-> 80 * TicksPerDay, p |-> p3]>> : p1, p2, p3 \in Prices}

\* the same prices, every timestamp a tick later: no timestamp is shared
Shifted(s) == [i \in 1..Len(s) |-> [s[i] EXCEPT !.t = s[i].t + 1]]

\* the same series and a point a day after its last, at a price of 120
Extended(s) ==
    Append(s, [t |-> s[Len(s)].t + TicksPerDay, p |-> 120])

\* the benchmark is absent, the fund itself, the fund from its second point
\* on, the fund and a later point, a series that shares no timestamp with
\* the fund, or a series on the fund's days that stays at 100 or rises to
\* 120 and falls back on its last day
LongBenchChoices(s) ==
    IF Len(s) \in AlignedLens
    THEN {<<>>, s, Tail(s), Extended(s), Shifted(s),
          Daily(Len(s), <<100>>), Daily(Len(s), <<120, 100>>)}
    ELSE IF Len(s) \in HurstLens THEN {<<>>}
    ELSE {<<>>, s, Tail(s), Extended(s)}

InitLong ==
    /\ nav \in LongSeries \cup GapSeries
    /\ bench \in LongBenchChoices(nav)
    /\ rf = DefaultRf
    /\ last = NoCall
    /\ ref = NoCall
    /\ mixed = FALSE
    /\ AppAtRest

NextLong ==
    \/ SetRf
    \/ CallHurst
    \/ CallAlphaBeta
    \/ CallCaptureRatios
    \/ CallSipReturns

SpecLong == InitLong /\ [][NextLong]_vars

\* Histories of 252 points, without a rolling return over one year, and of
\* 254 points, with two.
YearLen == TradingDays + 2

\* 758 points: two rolling returns over three years
ThreeYearLen == 3 * TradingDays + 2

\* last prices on and between the limits of the return buckets
LastPrices == {95, 100, 105, 110, 115, 120, 125}

InitYear ==
    /\ nav \in {Daily(n, <<p1, p2>>) :
                    n \in {TradingDays, YearLen}, p1, p2 \in LastPrices}
              \cup {Daily(ThreeYearLen, <<95, 125>>)}
    /\ bench = <<>>
    /\ rf = DefaultRf
    /\ last = NoCall
    /\ ref = NoCall
    /\ mixed = FALSE
    /\ AppAtRest

NextYear == CallRollingReturns \/ CallRollingReturnProfile

SpecYear == InitYear /\ [][NextYear]_vars

\* The caller keeps a result to compare a later one with.  The series are
\* those of MaxLen points, one per tick, that start and end at a price of
\* 100.
IdemSeries ==
    {s \in SeriesOfLen(MaxLen) :
        /\ s[1].p = 100
        /\ s[MaxLen].p = 100
        /\ \A i \in 1..MaxLen : s[i].t = i - 1}

InitIdem ==
    /\ nav \in IdemSeries
    /\ bench \in BenchChoices(nav)
    /\ rf = DefaultRf
    /\ last = NoCall
    /\ ref = NoCall
    /\ mixed = FALSE
    /\ AppAtRest

Keep ==
    /\ last # NoCall
    /\ ref # last
    /\ ref' = last
    /\ mixed' = FALSE
    /\ UNCHANGED <<nav, bench, rf, last, fetcher, state, pc>>

NextIdem == SetRf \/ Call \/ Keep

SpecIdem == InitIdem /\ [][NextIdem]_vars

\* ---------------------------------------------------------------- claims
Called(op) == last.op = op

\* prices of a series
PricesOf(s) == [i \in 1..Len(s) |-> s[i].p]

\* C1: on a series of fewer than 2 points calculate_cagr returns 0.0 and
\* calculate_risk_metrics the empty record, on the empty series
\* calculate_fund_multiplier returns 1.0, and calculate_cagr returns 0.0
\* whenever the first and last timestamps span 0 or fewer whole days.
C1_ShortSeriesDefaults ==
    /\ (Called("calculate_cagr") /\ Len(nav) < 2) => last.out = Zero
    /\ (Called("calculate_risk_metrics") /\ Len(nav) < 2) => DOMAIN last.out = {}
    /\ (Called("calculate_fund_multiplier") /\ nav = <<>>) => last.out = Rat(R(1))
    /\ (Called("calculate_cagr") /\ Len(nav) >= 2 /\ SpanDays(nav) <= 0)
            => last.out = Zero

C1_Witness ==
    /\ Called("calculate_fund_multiplier")
    /\ nav = <<>>
    /\ last.out = Rat(R(1))

\* C2: for every series of at least 2 points every field of the record of
\* calculate_risk_metrics is a finite number (no NaN, no Infinity).
C2_RiskMetricsFinite ==
    (Called("calculate_risk_metrics") /\ Len(nav) >= 2)
        => \A f \in DOMAIN last.out : IsFinite(last.out[f])

\* the denominators and numerators of the four ratios of the latest call
MaxDdOf(s) == calculate_drawdowns(s).max_drawdown
LossesOf(s, r) == Losses(pct_change(s), Threshold(Rate(r)))
GainsOf(s, r) == Gains(pct_change(s), Threshold(Rate(r)))
ExcessOf(s, r) == ExcessReturn(pct_change(s), Rate(r))

\* C3 as stated: each of sharpe, sortino, calmar and omega is 0 exactly when
\* its own denominator (volatility, downside deviation, max drawdown, losses
\* sum) is 0.  Read on the series of 3 or more points a day or more long,
\* where every field of the record is a number.
C3_ZeroIffDenominatorZero ==
    (Called("calculate_risk_metrics") /\ Len(nav) >= 3 /\ SpanDays(nav) >= 1) =>
        LET m == last.out
        IN  /\ m.sharpe_ratio = Zero <=> m.volatility = Zero
            /\ m.sortino_ratio = Zero <=> m.downside_deviation = Zero
            /\ m.calmar_ratio = Zero <=> MaxDdOf(nav) = Zero
            /\ m.omega_ratio = Zero <=> LossesOf(nav, last.rf) = Zero

\* C3 as amended: each of the four ratios is 0 whenever its own denominator
\* is 0, and a ratio that is 0 has a zero denominator or a zero numerator
\* (excess return for sharpe and sortino, cagr for calmar, the gains sum for
\* omega).
C3_ZeroWhenDenominatorZero ==
    (Called("calculate_risk_metrics") /\ Len(nav) >= 2) =>
        LET m == last.out
            excess == ExcessOf(nav, last.rf)
        IN  /\ m.volatility = Zero => m.sharpe_ratio = Zero
            /\ m.downside_deviation = Zero => m.sortino_ratio = Zero
            /\ MaxDdOf(nav) = Zero => m.calmar_ratio = Zero
            /\ LossesOf(nav, last.rf) = Zero => m.omega_ratio = Zero
            /\ m.sharpe_ratio = Zero => (m.volatility = Zero \/ excess = Zero)
            /\ m.sortino_ratio = Zero
                    => (m.downside_deviation = Zero \/ excess = Zero)
            /\ m.calmar_ratio = Zero => (MaxDdOf(nav) = Zero \/ m.cagr = Zero)
            /\ m.omega_ratio = Zero
                    => (LossesOf(nav, last.rf) = Zero
                        \/ GainsOf(nav, last.rf) = Zero)

\* a constant three-point series: every denominator is 0
C3_Witness ==
    /\ Called("calculate_risk_metrics")
    /\ Len(nav) = 3
    /\ last.out.volatility = Zero
    /\ last.out.downside_deviation = Zero
    /\ MaxDdOf(nav) = Zero
    /\ LossesOf(nav, last.rf) = Zero
    /\ last.out.sharpe_ratio = Zero
    /\ last.out.omega_ratio = Zero

\* C4: the record of calculate_risk_metrics is empty or holds all eight
\* fields, and it is empty exactly when the series has fewer than 2 points.
C4_RiskMetricsAllOrNothing ==
    Called("calculate_risk_metrics") =>
        /\ DOMAIN last.out \in {{}, RiskFields}
        /\ DOMAIN last.out = {} <=> Len(nav) < 2

C4_Witness ==
    /\ Called("calculate_risk_metrics")
    /\ Len(nav) = 2
    /\ DOMAIN last.out = RiskFields

\* C5: every drawdown is <= 0, the drawdown of the first point is 0, and the
\* drawdown is 0 at every point whose price is a new running maximum.
C5_DrawdownsNonPositive ==
    (Called("calculate_drawdowns") /\ nav # <<>>) =>
        LET d == last.out.drawdown
        IN  /\ \A i \in 1..Len(d) : RLe(d[i].v, R(0))
            /\ d[1].v = R(0)
            /\ \A i \in 1..Len(nav) :
                  (\A j \in 1..i : nav[j].p <= nav[i].p) => d[i].v = R(0)

\* a drop below the first price, then a new high
C5_Witness ==
    /\ Called("calculate_drawdowns")
    /\ Len(nav) = 3
    /\ nav[2].p < nav[1].p
    /\ nav[3].p > nav[1].p
    /\ RLt(last.out.drawdown[2].v, R(0))
    /\ last.out.drawdown[3].v = R(0)

\* C6: the drawdown series has one entry per input point on the same
\* timestamps, drawdown[i] = (price[i] - runningMax[i]) / runningMax[i],
\* max_drawdown is the minimum of the series and lies in (-1, 0]; the empty
\* series gives the empty series and max_drawdown 0.0.
C6_DrawdownSeriesShape ==
    Called("calculate_drawdowns") =>
        LET d == last.out.drawdown
            mdd == last.out.max_drawdown
            runningMax(i) == SetMax({nav[j].p : j \in 1..i})
        IN  /\ Len(d) = Len(nav)
            /\ \A i \in 1..Len(nav) :
                  /\ d[i].t = nav[i].t
                  /\ d[i].v = RDiv(R(nav[i].p - runningMax(i)), R(runningMax(i)))
            /\ nav = <<>> => (d = <<>> /\ mdd = Zero)
            /\ nav # <<>> =>
                  /\ mdd.k = "rat"
                  /\ \E i \in 1..Len(d) : d[i].v = mdd.q
                  /\ \A i \in 1..Len(d) : RLe(mdd.q, d[i].v)
                  /\ RLt(R(-1), mdd.q) /\ RLe(mdd.q, R(0))

\* the deepest drawdown lies in the middle of the series
C6_Witness ==
    /\ Called("calculate_drawdowns")
    /\ PricesOf(nav) = <<120, 80, 100>>
    /\ last.out.max_drawdown = Rat(<<-1, 3>>)
    /\ last.out.drawdown[3].v = <<-1, 6>>

Increasing(s) == \A i, j \in 1..Len(s) : i < j => s[i].p < s[j].p

\* C7 as stated: for every monotonically increasing price series
\* calculate_cagr is > 0, the max drawdown is 0 and calculate_fund_multiplier
\* is > 1.
C7_IncreasingSeries ==
    Increasing(nav) =>
        /\ Called("calculate_cagr") => VSign(last.out) = 1
        /\ Called("calculate_drawdowns") => last.out.max_drawdown = Zero
        /\ Called("calculate_fund_multiplier") => RLt(R(1), last.out.q)

\* C7 as amended: for every increasing price series of at least 2 points
\* calculate_fund_multiplier is > 1 and calculate_cagr is > 0 when the first
\* and last timestamps are a whole day or more apart; the max drawdown is 0
\* for every increasing series.
C7_IncreasingSeriesOfTwoOrMore ==
    Increasing(nav) =>
        /\ (Called("calculate_cagr") /\ Len(nav) >= 2 /\ SpanDays(nav) >= 1)
                => VSign(last.out) = 1
        /\ Called("calculate_drawdowns") => last.out.max_drawdown = Zero
        /\ (Called("calculate_fund_multiplier") /\ Len(nav) >= 2)
                => RLt(R(1), last.out.q)

C7_Witness ==
    /\ Called("calculate_cagr")
    /\ PricesOf(nav) = <<80, 100, 120>>
    /\ SpanDays(nav) >= 1
    /\ VSign(last.out) = 1

\* s rises to a peak at k, falls to a trough at t, then recovers to the peak
\* or above
SingleDip(s, k, t) ==
    /\ k < t /\ t < Len(s)
    /\ \A i \in 1..(k - 1) : s[i].p <= s[i + 1].p
    /\ \A i \in k..(t - 1) : s[i].p >= s[i + 1].p
    /\ s[t].p < s[k].p
    /\ \A i \in t..(Len(s) - 1) : s[i].p <= s[i + 1].p
    /\ s[Len(s)].p >= s[k].p

\* C8: for a series that falls from a peak P to a single trough T and then
\* recovers to at least P, the drawdown minimum is (T - P) / P, attained at
\* the trough, and the drawdown of the last point is 0.
C8_SingleDipRecovery ==
    Called("calculate_drawdowns") =>
        \A k, t \in 1..Len(nav) :
            SingleDip(nav, k, t) =>
                LET depth == RDiv(R(nav[t].p - nav[k].p), R(nav[k].p))
                IN  /\ last.out.max_drawdown = Rat(depth)
                    /\ last.out.drawdown[t].v = depth
                    /\ last.out.drawdown[Len(nav)].v = R(0)

\* a 20% drop and a full recovery
C8_Witness ==
    /\ Called("calculate_drawdowns")
    /\ PricesOf(nav) = <<100, 80, 100>>
    /\ last.out.max_drawdown = Rat(<<-1, 5>>)
    /\ last.out.drawdown[2].v = <<-1, 5>>
    /\ last.out.drawdown[3].v = R(0)

\* C9: two calls of one transform with the same arguments on the same series
\* under the same risk-free rate return identical results, whatever was
\* called and whatever rf was set in between.
C9_Idempotent ==
    (/\ ref # NoCall
     /\ last # NoCall
     /\ ref.op = last.op
     /\ ref.args = last.args
     /\ ref.rf = last.rf) => ref.out = last.out

\* the risk metrics of a 20% dip were kept, other transforms were called,
\* rf was set, and the risk metrics were taken again under the rate of the
\* kept call
C9_Witness ==
    /\ ref # NoCall
    /\ ref.op = "calculate_risk_metrics"
    /\ last.op = "calculate_risk_metrics"
    /\ ref.rf = last.rf
    /\ mixed
    /\ rf # last.rf
    /\ PricesOf(nav) = <<100, 80, 100>>
    /\ ref.out = last.out

\* C10: no transform call changes self.rf, and no step at all changes the
\* fund series or the benchmark series.
C10_InputsUntouched ==
    [][/\ nav' = nav
       /\ bench' = bench
       /\ last' # last => rf' = rf]_vars

\* calculate_calendar_returns has overwritten the first entry of its own
\* yearly returns, on a series that is also the benchmark, under a rate the
\* caller has set
C10_Witness ==
    /\ Called("calculate_calendar_returns")
    /\ Len(last.out) = 2
    /\ bench = nav
    /\ PricesOf(nav) = <<80, 100, 120>>
    /\ rf # DefaultRf

\* the timestamps two series share
SharedDates(a, b) ==
    {a[i].t : i \in 1..Len(a)} \cap {b[j].t : j \in 1..Len(b)}

AlphaBetaDefault == [alpha |-> Zero, beta |-> Zero, r_squared |-> Zero]

AlphaBetaFields == {"alpha", "beta", "r_squared", "info_ratio", "batting_average"}

\* C12: every record calculate_alpha_beta returns, the default for short
\* series included, holds the five fields alpha, beta, r_squared, info_ratio
\* and batting_average.
C12_AlphaBetaFiveFields ==
    Called("calculate_alpha_beta") => DOMAIN last.out = AlphaBetaFields

\* C13: for a fund identical to its benchmark, 20 points or more,
\* calculate_alpha_beta returns beta 1, alpha 0 and r_squared 1 and
\* calculate_capture_ratios returns upside 100 and downside 100.
C13_IdenticalSeries ==
    (bench = nav /\ Len(nav) >= 20) =>
        /\ Called("calculate_alpha_beta") =>
              /\ DOMAIN last.out = AlphaBetaFields
              /\ last.out.beta = Rat(R(1))
              /\ last.out.alpha = Zero
              /\ last.out.r_squared = Rat(R(1))
        /\ Called("calculate_capture_ratios") =>
              /\ last.out.upside = Rat(R(100))
              /\ last.out.downside = Rat(R(100))

\* C14: no transform raises or returns an undefined value on degenerate
\* valid input: calculate_hurst on a constant series of 100 points or more,
\* calculate_sip_returns on a series with a month without observation.
C14_NoUndefinedOutput ==
    /\ Called("calculate_hurst") => IsFinite(last.out)
    /\ (Called("calculate_sip_returns") /\ nav # <<>>) =>
          /\ IsFinite(last.out.current_value)
          /\ IsFinite(last.out.total_units)
          /\ IsFinite(last.out.absolute_return)
    /\ Called("calculate_alpha_beta") => "raised" \notin DOMAIN last.out

\* the whole number w with w <= window_years * 252 < w + 1
TruncatedWindow(window_years) ==
    CHOOSE w \in 0..(window_years[1] * 252) :
        /\ w * window_years[2] <= window_years[1] * 252
        /\ window_years[1] * 252 < (w + 1) * window_years[2]

\* the whole number nearest to window_years * 252
NearestWindow(window_years) ==
    CHOOSE w \in 0..(window_years[1] * 252 + 1) :
        /\ 2 * w * window_years[2] <= 2 * window_years[1] * 252 + window_years[2]
        /\ 2 * window_years[1] * 252 + window_years[2] < 2 * (w + 1) * window_years[2]

\* the latest result is one rolling return for each point i with
\* window <= i < n, on the timestamp of point i, from price[i] and
\* price[i - window]
RollingShape(window) ==
    LET rolling == last.out
        years == last.args[1]
    IN  /\ Len(rolling) = IF Len(nav) > window THEN Len(nav) - window ELSE 0
        /\ \A k \in 1..Len(rolling) :
              /\ rolling[k].t = nav[window + k].t
              /\ rolling[k].v =
                    PowM1(RDiv(R(nav[window + k].p), R(nav[k].p)), RInv(years))

\* C15 as stated: with window = round(windowYears x 252),
\* calculate_rolling_returns returns one value for each index i with
\* window <= i < n, keyed to the timestamp of point i and computed from
\* price[i] and price[i - window]; its length is max(0, n - window).
C15_RollingWindowRounded ==
    Called("calculate_rolling_returns")
        => RollingShape(NearestWindow(last.args[1]))

\* C15 as amended: the same with window = int(windowYears x 252), the
\* product truncated to a whole number.
C15_RollingWindowTruncated ==
    Called("calculate_rolling_returns")
        => RollingShape(TruncatedWindow(last.args[1]))

\* two rolling returns over one year from 254 points
C15_Witness ==
    /\ Called("calculate_rolling_returns")
    /\ last.args = <<R(1)>>
    /\ Len(nav) = 254
    /\ nav[254].p = 120
    /\ Len(last.out) = 2
    /\ last.out[2] = [t |-> nav[254].t, v |-> Rat(<<1, 5>>)]

BucketKeys ==
    <<"% times -ve returns", "% times returns 0 - 5%",
      "% times returns 5 - 10%", "% times returns 10 - 15%",
      "% times returns 15 - 20%", "% times returns > 20%">>

\* the return r lies in the b-th of the six buckets
\* <0, [0,5%), [5,10%), [10,15%), [15,20%), >=20%
InBucket(r, b) ==
    /\ b > 1 => RLe(Norm(5 * (b - 2), 100), r)
    /\ b < 6 => RLt(r, Norm(5 * (b - 1), 100))

\* the rolling returns over one year, from the prices
YearReturns(s) ==
    [i \in 1..(Len(s) - 252) |-> RSub(RDiv(R(s[i + 252].p), R(s[i].p)), R(1))]

\* C16: for every present horizon of calculate_rolling_return_profile each
\* rolling return is counted in exactly one of the six buckets, a limit
\* falling in the bucket it opens: the six shares lie in [0, 1] and sum to 1.
C16_BucketsPartition ==
    Called("calculate_rolling_return_profile") =>
        /\ \A yrs \in {1, 3, 5} :
              LET label == IF yrs = 1 THEN "1 Year"
                           ELSE IF yrs = 3 THEN "3 Years" ELSE "5 Years"
              IN  IF Len(nav) > 252 * yrs
                  THEN LET e == last.out[label]
                       IN  /\ \A b \in 1..6 :
                                 RLe(R(0), e[BucketKeys[b]])
                                    /\ RLe(e[BucketKeys[b]], R(1))
                           /\ RSum([b \in 1..6 |-> e[BucketKeys[b]]]) = R(1)
                  ELSE last.out[label] = "None"
        /\ Len(nav) > 252 =>
              LET rs == YearReturns(nav)
              IN  /\ \A i \in 1..Len(rs) :
                        Cardinality({b \in 1..6 : InBucket(rs[i], b)}) = 1
                  /\ \A b \in 1..6 :
                        last.out["1 Year"][BucketKeys[b]] =
                            Norm(Cardinality({i \in 1..Len(rs) : InBucket(rs[i], b)}),
                                 Len(rs))

\* one return of exactly 5% and one of exactly 20%
C16_Witness ==
    /\ Called("calculate_rolling_return_profile")
    /\ Len(nav) = 254
    /\ nav[253].p = 105
    /\ nav[254].p = 120
    /\ last.out["1 Year"]["% times returns 5 - 10%"] = <<1, 2>>
    /\ last.out["1 Year"]["% times returns > 20%"] = <<1, 2>>

\* C17: calculate_downside_deviation is the square root of the sum of the
\* squares of the strictly negative daily returns divided by the count of
\* all daily returns, times sqrt(252); 0.0 for fewer than 2 points and 0
\* when no return is negative.
C17_DownsideDeviation ==
    Called("calculate_downside_deviation") =>
        IF Len(nav) < 2 THEN last.out = Zero
        ELSE LET n == Len(nav) - 1
                 r(i) == Norm(nav[i + 1].p - nav[i].p, nav[i].p)
                 y == RSum([i \in 1..n |->
                            IF nav[i + 1].p < nav[i].p THEN RMul(r(i), r(i))
                            ELSE R(0)])
             IN  IF y = R(0) THEN last.out = Zero
                 ELSE /\ last.out.k = "sqrt"
                      /\ RSign(last.out.c) = 1
                      /\ RMul(RMul(last.out.c, last.out.c), last.out.r)
                            = RDiv(RMul(R(252), y), R(n))

\* one return of -20% and one of +25%: sqrt(0.04 / 2 * 252)
C17_Witness ==
    /\ Called("calculate_downside_deviation")
    /\ PricesOf(nav) = <<100, 80, 100>>
    /\ last.out = [k |-> "sqrt", c |-> R(1), r |-> <<126, 25>>]

\* the variance of the differences of prices lag points apart
LagVariance(s, lag) ==
    LET n == Len(s) - lag
        d == [i \in 1..n |-> R(s[i + lag].p - s[i].p)]
        m == RDiv(RSum(d), R(n))
    IN  RDiv(RSum([i \in 1..n |-> RMul(RSub(d[i], m), RSub(d[i], m))]), R(n))

\* C18: calculate_hurst returns exactly 0.5 for fewer than 100 points; for
\* 100 or more it fits over exactly the lags 2..19 and returns 2.0 times
\* the slope (NaN when a lag has no dispersion).
C18_HurstLags ==
    Called("calculate_hurst") =>
        IF Len(nav) < 100 THEN last.out = Rat(<<1, 2>>)
        ELSE IF \E lag \in 2..19 : LagVariance(nav, lag) = R(0)
        THEN last.out = NaN
        ELSE /\ last.out.k = "fit"
             /\ last.out.c = R(2)
             /\ DOMAIN last.out.tau4 = 2..19
             /\ \A lag \in 2..19 : last.out.tau4[lag] = LagVariance(nav, lag)

C18_Witness ==
    /\ Called("calculate_hurst")
    /\ Len(nav) = 100
    /\ last.out.k = "fit"
    /\ last.out.tau4[2] = <<9700, 2401>>

\* C19: calculate_capture_ratios puts every month in one bucket by the sign
\* of the benchmark's return, returns 0 for an empty bucket and for an empty
\* aligned set, and a finite value, 0, when the mean benchmark return of a
\* bucket is 0.
C19_CaptureRatiosDefined ==
    Called("calculate_capture_ratios") =>
        LET df == Join(nav, bench)
            BenchOf(row) == row.bench
            b == Changes(LastPadded(df, Resample(df, MonthOf), BenchOf))
            up == {i \in 1..Len(b) : RLt(R(0), b[i])}
            down == {i \in 1..Len(b) : RLe(b[i], R(0))}
        IN  IF df = <<>>
            THEN last.out = [upside |-> Zero, downside |-> Zero]
            ELSE /\ up = {} => last.out.upside = Zero
                 /\ down = {} => last.out.downside = Zero
                 /\ IsFinite(last.out.upside)
                 /\ IsFinite(last.out.downside)
                 /\ (down # {} /\ \A i \in down : b[i] = R(0))
                        => last.out.downside = Zero

\* C20: calculate_sip_returns contributes once for every month of the
\* series: total_invested = contribution x number of months, total_units =
\* sum of contribution / first price of the month, current_value =
\* total_units x last price, absolute_return = (current_value -
\* total_invested) / total_invested; the empty series gives the empty record.
C20_SipAccounting ==
    Called("calculate_sip_returns") =>
        IF nav = <<>> THEN last.out = <<>>
        ELSE LET sip == last.args[1]
                 months == {BmsBin(nav[i].t) : i \in 1..Len(nav)}
                 first(m) == SetMin({i \in 1..Len(nav) : BmsBin(nav[i].t) = m})
                 lo == SetMin(months)
                 hi == SetMax(months)
                 units == RSum([k \in 1..(hi - lo + 1) |->
                                IF lo + k - 1 \in months
                                THEN Norm(sip, nav[first(lo + k - 1)].p)
                                ELSE R(0)])
                 invested == sip * Cardinality(months)
                 value == RMul(units, R(nav[Len(nav)].p))
             IN  /\ last.out.total_invested = invested
                 /\ last.out.total_units = Rat(units)
                 /\ last.out.current_value = Rat(value)
                 /\ last.out.absolute_return =
                        Rat(RDiv(RSub(value, R(invested)), R(invested)))

\* the daily returns of a series, from its prices
DailyReturns(s) ==
    [i \in 1..(Len(s) - 1) |-> Norm(s[i + 1].p - s[i].p, s[i].p)]

\* C21: the omega ratio of calculate_risk_metrics is, for the threshold
\* rf / 252, the sum of (return - threshold) over the returns above the
\* threshold divided by the sum of the shortfalls (threshold - return) of the
\* returns at or below it, and 0 when that divisor is 0.
C21_OmegaOverThreshold ==
    (Called("calculate_risk_metrics") /\ Len(nav) >= 2) =>
        LET threshold == RDiv(Norm(last.rf, 1000), R(252))
            r == DailyReturns(nav)
            excess == RSum([i \in 1..Len(r) |->
                            IF RLt(threshold, r[i]) THEN RSub(r[i], threshold)
                            ELSE R(0)])
            shortfall == RSum([i \in 1..Len(r) |->
                               IF RLe(r[i], threshold) THEN RSub(threshold, r[i])
                               ELSE R(0)])
        IN  last.out.omega_ratio =
                IF shortfall = R(0) THEN Zero ELSE Rat(RDiv(excess, shortfall))

\* the last point of a series in a calendar year
LastOfYear(s, y) == s[SetMax({i \in 1..Len(s) : YearOf(s[i].t) = y})]

\* C23: calculate_calendar_returns has one entry for every calendar year of
\* the series, keyed by the year: the year's last observation over the last
\* observation of the year before, minus 1, and for the first year its last
\* observation over the first observation of the series, minus 1, a number;
\* the empty series gives the empty result.
C23_CalendarReturns ==
    Called("calculate_calendar_returns") =>
        IF nav = <<>> THEN last.out = <<>>
        ELSE LET y0 == YearOf(nav[1].t)
                 y1 == YearOf(nav[Len(nav)].t)
             IN  /\ Len(last.out) = y1 - y0 + 1
                 /\ \A k \in 1..Len(last.out) :
                       /\ last.out[k].year = y0 + k - 1
                       /\ last.out[k].v =
                            Rat(Norm(LastOfYear(nav, y0 + k - 1).p
                                        - (IF k = 1 THEN nav[1].p
                                           ELSE LastOfYear(nav, y0 + k - 2).p),
                                     IF k = 1 THEN nav[1].p
                                     ELSE LastOfYear(nav, y0 + k - 2).p))

\* 2020 ends 20% above the first observation, 2021 a third below 2020
C23_Witness ==
    /\ Called("calculate_calendar_returns")
    /\ PricesOf(nav) = <<100, 120, 80>>
    /\ YearOf(nav[2].t) = 2020
    /\ YearOf(nav[3].t) = 2021
    /\ last.out = <<[year |-> 2020, v |-> Rat(<<1, 5>>)],
                    [year |-> 2021, v |-> Rat(<<-1, 3>>)]>>

\* the points of a series on the timestamps that fund and benchmark share
OnShared(s) ==
    LET both(x) == x.t \in SharedDates(nav, bench) IN SelectSeq(s, both)

BaseOf(v) == IF v.k = "pow" THEN v.b ELSE RAdd(v.q, R(1))

\* a <= b for two returns over the same horizon, the second possibly the
\* mean of two returns
AtMost(a, b) ==
    IF b.k = "mean" THEN RLe(BaseOf(a), BaseOf(b.a))
    ELSE IF a.k = "mean" THEN RLe(BaseOf(a.b), BaseOf(b))
    ELSE RLe(BaseOf(a), BaseOf(b))

\* C24: calculate_rolling_return_profile has an entry for exactly the
\* horizons of 1, 3 and 5 years; a horizon is None exactly when the series
\* has no more than 252 x years points, and is otherwise a record of
\* Minimum <= Median <= Maximum and the six shares; so a shorter horizon is
\* never None when a longer one is present.
C24_ProfileHorizons ==
    Called("calculate_rolling_return_profile") =>
        /\ DOMAIN last.out = {"1 Year", "3 Years", "5 Years"}
        /\ \A yrs \in {1, 3, 5} :
              LET label == IF yrs = 1 THEN "1 Year"
                           ELSE IF yrs = 3 THEN "3 Years" ELSE "5 Years"
                  e == last.out[label]
              IN  IF Len(nav) <= 252 * yrs THEN e = "None"
                  ELSE /\ DOMAIN e = {"Minimum", "Median", "Maximum"}
                                        \cup {BucketKeys[b] : b \in 1..6}
                       /\ AtMost(e["Minimum"], e["Median"])
                       /\ AtMost(e["Median"], e["Maximum"])

\* 758 points: the horizons of 1 and 3 years are present, 5 years is not;
\* over 3 years the returns are 0.95 ** (1/3) - 1 and 1.25 ** (1/3) - 1
C24_Witness ==
    /\ Called("calculate_rolling_return_profile")
    /\ Len(nav) = 758
    /\ last.out["5 Years"] = "None"
    /\ last.out["3 Years"]["Minimum"] = PowM1(<<19, 20>>, <<1, 3>>)
    /\ last.out["3 Years"]["Maximum"] = PowM1(<<5, 4>>, <<1, 3>>)
    /\ last.out["1 Year"]["Median"] = Zero

\* the daily returns of fund and benchmark on their shared dates
FundReturns == DailyReturns(OnShared(nav))
BenchReturns == DailyReturns(OnShared(bench))

\* the fund's return less the benchmark's is the same on every day: the
\* tracking error is 0
NoTrackingError ==
    \A i \in 1..Len(FundReturns) :
        RSub(FundReturns[i], BenchReturns[i]) = RSub(FundReturns[1], BenchReturns[1])

\* the record of the latest call has info_ratio and batting_average, info_ratio
\* is 0 when the tracking error is 0 and batting_average is the percentage of
\* the days on which the fund's return exceeds the benchmark's
ActiveFields ==
    /\ {"info_ratio", "batting_average"} \subseteq DOMAIN last.out
    /\ NoTrackingError => last.out.info_ratio = Zero
    /\ last.out.batting_average =
          Rat(Norm(100 * Cardinality({i \in 1..Len(FundReturns) :
                                        RLt(BenchReturns[i], FundReturns[i])}),
                   Len(FundReturns)))
    /\ RLe(R(0), last.out.batting_average.q)
    /\ RLe(last.out.batting_average.q, R(100))
    /\ nav = bench => last.out.batting_average = Zero

\* C25: calculate_alpha_beta on at least 20 aligned points returns
\* info_ratio 0 whenever the tracking error is 0 and batting_average the
\* percentage of days on which the fund's return strictly exceeds the
\* benchmark's, in [0, 100] and 0 for identical series.
C25_ActiveReturnFields ==
    (Called("calculate_alpha_beta")
        /\ Cardinality(SharedDates(nav, bench)) >= 20) => ActiveFields

\* the fields of the records that use an excess return
ExcessFields == {"sharpe_ratio", "sortino_ratio", "omega_ratio", "alpha"}

\* two records agree on every field that uses no excess return
SameButExcess(a, b) ==
    /\ DOMAIN a = DOMAIN b
    /\ \A f \in DOMAIN a \ ExcessFields : a[f] = b[f]

\* C26: the risk-free rate reaches only the ratios that use an excess
\* return: an engine with another rf returns, for the same series, the same
\* record of calculate_risk_metrics but for sharpe_ratio, sortino_ratio and
\* omega_ratio and the same record of calculate_alpha_beta but for alpha.
C26_RfOnlyInExcessRatios ==
    \A r \in RfChoices :
        /\ Called("calculate_risk_metrics") =>
              SameButExcess(last.out, calculate_risk_metrics(nav, Rate(r)))
        /\ Called("calculate_alpha_beta") =>
              SameButExcess(last.out, calculate_alpha_beta(nav, bench, Rate(r)))

\* the series with every price after point k raised by d
Lifted(s, k, d) ==
    [i \in 1..Len(s) |-> IF i > k THEN [s[i] EXCEPT !.p = s[i].p + d] ELSE s[i]]

\* the point whose price the last contribution buys at: the first point of
\* the last month
LastContribution(s) ==
    SetMin({i \in 1..Len(s) : BmsBin(s[i].t) = BmsBin(s[Len(s)].t)})

\* a is a number below the number b
Lower(a, b) == a.k = "rat" /\ b.k = "rat" /\ RLt(a.q, b.q)

\* C27: on a series that stays at one price calculate_sip_returns returns
\* current_value = total_invested and absolute_return 0; and raising every
\* price after the last contribution never lowers absolute_return.
C27_SipFlatAndMonotone ==
    (Called("calculate_sip_returns") /\ nav # <<>>) =>
        /\ (\A i \in 1..Len(nav) : nav[i].p = nav[1].p) =>
              /\ last.out.current_value = Rat(R(last.out.total_invested))
              /\ last.out.absolute_return = Zero
        /\ \A d \in {20, 40} :
              ~Lower(calculate_sip_returns(
                        Lifted(nav, LastContribution(nav), d),
                        last.args[1]).absolute_return,
                     last.out.absolute_return)

\* -------------------------------------------------------------- fetcher
\* A str is a sequence of characters; a catalog (the dict get_scheme_codes
\* returns) is a sequence of entries [code, name] in the dict's order.
UpperCase ==
    <<"A", "B", "C", "D", "E", "F", "G", "H", "I", "J", "K", "L", "M",
      "N", "O", "P", "Q", "R", "S", "T", "U", "V", "W", "X", "Y", "Z">>

LowerCase ==
    <<"a", "b", "c", "d", "e", "f", "g", "h", "i", "j", "k", "l", "m",
      "n", "o", "p", "q", "r", "s", "t", "u", "v", "w", "x", "y", "z">>

\* the lower-case letter of each upper-case letter
ToLower ==
    [c \in {UpperCase[k] : k \in 1..Len(UpperCase)} |->
        LowerCase[CHOOSE k \in 1..Len(UpperCase) : UpperCase[k] = c]]

\* str.lower()
lower(s) ==
    [i \in 1..Len(s) |-> IF s[i] \in DOMAIN ToLower THEN ToLower[s[i]] ELSE s[i]]

\* str.replace(old, new) for one character
replace(s, old, new) == [i \in 1..Len(s) |-> IF s[i] = old THEN new ELSE s[i]]

\* str.strip()
strip(s) ==
    LET inked == {i \in 1..Len(s) : s[i] # " "}
    IN  IF inked = {} THEN <<>> ELSE SubSeq(s, SetMin(inked), SetMax(inked))

\* str.split(): the words between runs of blanks
RECURSIVE split(_)
split(s) ==
    IF s = <<>> THEN <<>>
    ELSE IF s[1] = " " THEN split(Tail(s))
    ELSE LET end == SetMin({i \in 2..(Len(s) + 1) : i = Len(s) + 1 \/ s[i] = " "})
         IN  <<SubSeq(s, 1, end - 1)>> \o split(SubSeq(s, end, Len(s)))

\* part in s
In(part, s) ==
    \E i \in 0..(Len(s) - Len(part)) : SubSeq(s, i + 1, i + Len(part)) = part

\* the decimal digits of n
Digit == <<"0", "1", "2", "3", "4", "5", "6", "7", "8", "9">>

RECURSIVE Digits(_)
Digits(n) ==
    IF n < 10 THEN <<Digit[n + 1]>> ELSE Append(Digits(n \div 10), Digit[(n % 10) + 1])

\* the first row of the provider's table, which get_scheme_codes keeps
Header == [code |-> <<"S", "c", "h", "e", "m", "e", " ", "C", "o", "d", "e">>, name |-> <<"S", "c", "h", "e", "m", "e", " ", "N", "a", "m", "e">>]

\* a catalog with the header, two funds, a row without code and a row
\* without name
SmallCatalog ==
    <<Header,
      [code |-> Digits(101), name |-> <<"A", "x", "i", "s", " ", "T", "o", "p", "-", "C", "a", "p">>],
      [code |-> Digits(102), name |-> <<"A", "x", "i", "s", " ", "M", "i", "d", ",", "C", "a", "p">>],
      [code |-> <<>>, name |-> <<"N", "i", "l", " ", "R", "o", "w">>],
      [code |-> Digits(103), name |-> <<>>]>>

\* len(self._all_schemes) < 100
MinCatalog == 100

\* a catalog of the header and MinCatalog funds
BigCatalog ==
    <<Header>> \o [i \in 1..MinCatalog |->
                    [code |-> Digits(1000 + i), name |-> <<"F", "u", "n", "d", " ">> \o Digits(i)]]

Catalogs == {<<>>, SmallCatalog, BigCatalog}

\* what self.mf.get_scheme_codes() does: it returns a catalog or raises
ProviderReplies == {[catalog |-> c] : c \in Catalogs} \cup {Raised("ConnectionError")}

Failed(reply) == "raised" \in DOMAIN reply

Queries ==
    {<<>>,
     <<" ">>,
     <<"a", "x", "i", "s">>,
     <<"A", "X", "I", "S", " ", "t", "o", "p">>,
     <<"t", "o", "p", "-", "c", "a", "p">>,
     <<"m", "i", "d", " ", "c", "a", "p">>,
     <<"c", "a", "p">>,
     <<"n", "a", "m", "e">>,
     <<"n", "i", "l">>,
     <<"z", "z">>,
     <<"a", "x", "i", "s", " ", "z", "z">>,
     <<"m", "i", "d", "-", "c", "a", "p">>,
     <<"f", "u", "n", "d", " ", "7">>}

\* get_all_schemes of src/mf_reflex/src: the new self, the result, whether
\* the provider was called and whether the call raised
get_all_schemes(self, reply) ==
    IF self.all_schemes = None \/ Len(self.all_schemes[1]) < MinCatalog
    THEN IF Failed(reply)
         THEN [self |-> self, out |-> <<>>, asked |-> TRUE, raised |-> FALSE]
         ELSE [self |-> [self EXCEPT !.all_schemes = Some(reply.catalog)],
               out |-> reply.catalog, asked |-> TRUE, raised |-> FALSE]
    ELSE [self |-> self, out |-> self.all_schemes[1], asked |-> FALSE,
          raised |-> FALSE]

\* get_all_schemes of src/src, which lets the provider's exception through
get_all_schemes_src(self, reply) ==
    IF self.all_schemes = None
    THEN IF Failed(reply)
         THEN [self |-> self, out |-> <<>>, asked |-> TRUE, raised |-> TRUE]
         ELSE [self |-> [self EXCEPT !.all_schemes = Some(reply.catalog)],
               out |-> reply.catalog, asked |-> TRUE, raised |-> FALSE]
    ELSE [self |-> self, out |-> self.all_schemes[1], asked |-> FALSE,
          raised |-> FALSE]

\* name.lower().replace("-", " ").replace(",", " ")
Clean(s) == replace(replace(lower(s), "-", " "), ",", " ")

\* search_funds of src/mf_reflex/src on the catalog it got
Matching(schemes, query) ==
    LET query_parts == split(Clean(query))
        Hit(e) == /\ e.code # <<>>
                  /\ e.name # <<>>
                  /\ lower(strip(e.code)) # lower(Header.code)
                  /\ \A k \in 1..Len(query_parts) : In(query_parts[k], Clean(e.name))
        results == SelectSeq(schemes, Hit)
        Partial(e) == In(query_parts[1], lower(e.name))
    IN  IF results = <<>> /\ Len(query_parts) = 1
        THEN SelectSeq(schemes, Partial)
        ELSE results

search_funds(self, query, reply) ==
    IF query = <<>>
    THEN [self |-> self, out |-> <<>>, asked |-> FALSE, raised |-> FALSE]
    ELSE LET got == get_all_schemes(self, reply)
         IN  IF got.out = <<>> THEN got
             ELSE [got EXCEPT !.out = Matching(got.out, query)]

\* search_funds of src/src on the catalog it got
Matching_src(schemes, query) ==
    LET query_parts == split(lower(query))
        Hit(e) == /\ e.code # <<>>
                  /\ e.name # <<>>
                  /\ e.code # Header.code
                  /\ \A k \in 1..Len(query_parts) : In(query_parts[k], lower(e.name))
    IN  SelectSeq(schemes, Hit)

search_funds_src(self, query, reply) ==
    LET got == get_all_schemes_src(self, reply)
    IN  IF got.raised THEN got
        ELSE [got EXCEPT !.out = Matching_src(got.out, query)]

\* the two classes behind one name
GetAllSchemes(self, reply) ==
    IF self.cls = "src" THEN get_all_schemes_src(self, reply)
    ELSE get_all_schemes(self, reply)

SearchFunds(self, query, reply) ==
    IF self.cls = "src" THEN search_funds_src(self, query, reply)
    ELSE search_funds(self, query, reply)

\* a call on the fetcher: the caller sees the result (and the model records
\* the fetcher before the call, whether the provider was called and whether
\* it failed), the fetcher keeps its cache
ObserveFetch(op, args, reply, got) ==
    /\ last' = [op |-> op, args |-> args, rf |-> rf, out |-> got.out,
                asked |-> got.asked, failed |-> (got.asked /\ Failed(reply)),
                raised |-> got.raised, self |-> fetcher]
    /\ fetcher' = got.self
    /\ UNCHANGED <<nav, bench, rf, ref, mixed, state, pc>>

CallGetAllSchemes ==
    \E reply \in ProviderReplies :
        ObserveFetch("get_all_schemes", <<>>, reply, GetAllSchemes(fetcher, reply))

CallSearchFunds ==
    \E query \in Queries, reply \in ProviderReplies :
        ObserveFetch("search_funds", <<query>>, reply,
                     SearchFunds(fetcher, query, reply))

InitFetch ==
    /\ nav = <<>>
    /\ bench = <<>>
    /\ rf = DefaultRf
    /\ last = NoCall
    /\ ref = NoCall
    /\ mixed = FALSE
    /\ fetcher \in {MFDataFetcher(cls) : cls \in {"mf_reflex", "src"}}
    /\ state = State
    /\ pc = "idle"

NextFetch == CallGetAllSchemes \/ CallSearchFunds

SpecFetch == InitFetch /\ [][NextFetch]_vars

\* the entries of a catalog
Entries(catalog) == {catalog[i] : i \in 1..Len(catalog)}

\* C28: every entry search_funds returns is an entry of the catalog whose
\* name contains every whitespace-separated word of the query, whatever the
\* case, and is neither the header row nor a row without code or name.
C28_SearchReturnsMatches ==
    (Called("search_funds") /\ ~last.raised) =>
        \A e \in Entries(last.out) :
            /\ e \in Entries(fetcher.all_schemes[1])
            /\ \A word \in Entries(split(last.args[1])) : In(lower(word), lower(e.name))
            /\ e.code # Header.code
            /\ e.code # <<>>
            /\ e.name # <<>>

\* C29: a get_all_schemes call on a fetcher that holds a catalog returns that
\* catalog without calling the provider; a call whose provider call fails
\* returns an empty catalog, leaves the cache as it was, and the call after
\* it calls the provider again.
C29_CatalogCachedOnce ==
    Called("get_all_schemes") =>
        /\ last.self.all_schemes # None =>
              /\ ~last.asked
              /\ ~last.raised
              /\ last.out = last.self.all_schemes[1]
              /\ fetcher = last.self
        /\ last.failed =>
              /\ ~last.raised
              /\ last.out = <<>>
              /\ fetcher = last.self
              /\ \A reply \in ProviderReplies : GetAllSchemes(fetcher, reply).asked

\* ------------------------------------------------------------ Reflex UI
\* len(rebased) > 200 and step = len(rebased) // 200
PlotPoints == 200

\* rebased.iloc[::step]
Sampled(s) ==
    IF Len(s) > PlotPoints
    THEN LET step == Len(s) \div PlotPoints
         IN  [k \in 1..((Len(s) - 1) \div step + 1) |-> s[(k - 1) * step + 1]]
    ELSE s

\* plot_data: the dates and the prices rebased to 100, rounded to 1/100
PlotData(nav_data) ==
    LET rebased == Sampled(nav_data)
    IN  [k \in 1..Len(rebased) |->
            [date |-> rebased[k].t \div TicksPerDay,
             value |-> RoundTo(RMul(Norm(rebased[k].p, nav_data[1].p), R(100)), 100)]]

\* risk.get('volatility', 0)
VolatilityOf(risk) == IF risk = <<>> THEN Zero ELSE risk.volatility

\* the state after the part of handle_search that follows the yield, given
\* what the provider answers for the catalog and for the fund's history
Searched(self, reply, nav_data) ==
    LET search_results == search_funds(MFDataFetcher("mf_reflex"), self.search_query, reply).out
        shown ==
            IF search_results # <<>>
            THEN IF nav_data # <<>>
                 THEN [self EXCEPT
                         !.results_found = TRUE,
                         !.fund_name = search_results[1].name,
                         !.latest_nav = Format(".2f", Rat(R(nav_data[Len(nav_data)].p))),
                         !.cagr = Format(".1%", calculate_cagr(nav_data)),
                         !.volatility = Format(".1%",
                             VolatilityOf(calculate_risk_metrics(nav_data, Rate(DefaultRf)))),
                         !.plot_data = PlotData(nav_data)]
                 ELSE [self EXCEPT
                         !.results_found = TRUE,
                         !.fund_name = DataUnavailable,
                         !.plot_data = <<>>]
            ELSE [self EXCEPT
                    !.results_found = FALSE,
                    !.fund_name = NoFundsFound]
    IN  [shown EXCEPT !.is_loading = FALSE]

\* which way the part after the yield went
PathOf(self, reply, nav_data) ==
    IF search_funds(MFDataFetcher("mf_reflex"), self.search_query, reply).out = <<>>
    THEN "no funds"
    ELSE IF nav_data = <<>> THEN "no data" ELSE "data"

\* what the user types
UiQueries == {<<>>, <<"a", "x", "i", "s">>, <<"n", "a", "m", "e">>, <<"z", "z">>}

\* what get_nav_history returns: nothing, or a history
Histories ==
    {<<>>, Daily(1, <<120>>), Daily(2, <<100, 120>>), Daily(3, <<80, 100, 100>>),
     Daily(2 * PlotPoints + 1, <<120>>)}

set_search_query ==
    /\ pc = "idle"
    /\ \E query \in UiQueries :
          /\ query # state.search_query
          /\ state' = [state EXCEPT !.search_query = query]
          /\ last' = [op |-> "set_search_query", args |-> <<query>>, rf |-> rf,
                      out |-> <<>>]
    /\ UNCHANGED <<nav, bench, rf, ref, mixed, fetcher, pc>>

\* handle_search up to its return or its yield; the model records the state
\* the handler started from
HandleSearchBegin ==
    /\ pc = "idle"
    /\ IF state.search_query = <<>>
       THEN /\ last' = [op |-> "handle_search", args |-> <<>>, rf |-> rf,
                        out |-> "returned", before |-> state]
            /\ UNCHANGED <<state, pc>>
       ELSE /\ last' = [op |-> "handle_search", args |-> <<>>, rf |-> rf,
                        out |-> "loading", before |-> state]
            /\ state' = [state EXCEPT !.is_loading = TRUE]
            /\ pc' = "loading"
    /\ UNCHANGED <<nav, bench, rf, ref, mixed, fetcher>>

\* handle_search from its yield to its end
HandleSearchEnd ==
    /\ pc = "loading"
    /\ \E reply \in ProviderReplies, nav_data \in Histories :
          /\ state' = Searched(state, reply, nav_data)
          /\ last' = [last EXCEPT !.out = PathOf(state, reply, nav_data)]
    /\ pc' = "idle"
    /\ UNCHANGED <<nav, bench, rf, ref, mixed, fetcher>>

InitUi ==
    /\ nav = <<>>
    /\ bench = <<>>
    /\ rf = DefaultRf
    /\ last = NoCall
    /\ ref = NoCall
    /\ mixed = FALSE
    /\ AppAtRest

NextUi == set_search_query \/ HandleSearchBegin \/ HandleSearchEnd

SpecUi == InitUi /\ [][NextUi]_vars

\* the page shows the metric cards and the chart: rx.cond(State.results_found, ...)
Presented == state.results_found

\* the field still holds what an earlier search wrote into it
Stale(field) == state[field] = last.before[field] /\ state[field] # State[field]

\* C30: when handle_search has finished is_loading is False; a run with an
\* empty search_query changes no field; and after a run that found no fund
\* or no NAV data the page presents no latest_nav, cagr, volatility or
\* plot_data that an earlier search wrote.
C30_HandleSearch ==
    (Called("handle_search") /\ pc = "idle") =>
        /\ ~state.is_loading
        /\ last.out = "returned" => state = last.before
        /\ (last.out \in {"no funds", "no data"} /\ Presented) =>
              \A field \in {"latest_nav", "cagr", "volatility", "plot_data"} :
                  ~Stale(field)

====
